---- MODULE Spec2Model ----
(***************************************************************************)
(* Batch video pipeline of scripts/main.py: main() loads the field mapping *)
(* and the customer rows, then a Pool(2) of workers runs                   *)
(* generate_the_needful_for_users once per user.  Each worker call walks   *)
(* the controller's steps (skip check, config, script, audio, dirs,        *)
(* generate_video/make_video, two uploads, mark processed).                *)
(***************************************************************************)
EXTENDS Integers, Sequences, FiniteSets, TLC

VARIABLES mainPc, mapping, rows, user_details, unprocessed, nextTask, results,
          video_details, processed_users, disk, gcs, worker, hist, log,
          \* one call of a pure helper (overlay timing, text layout, ...): its
          \* arguments, its position and its result
          fn

vars == <<mainPc, mapping, rows, user_details, unprocessed, nextTask, results,
          video_details, processed_users, disk, gcs, worker, hist, log, fn>>

(* ------------------------------ bounds --------------------------------- *)
\* number of distinct primary-key values a sheet cell can hold
NumKeys == 1
\* number of rows read from the customer sheet
MaxRows == 2
\* number of fields in the field-mapping document
NumFields == 2
\* number of audio segments in the video configuration
NumSegments == 2
\* number of overlays in the video configuration
MaxOverlays == 2
\* number of fields of one customer row
MaxDataFields == 2
\* the font sizes an overlay may configure
SmallestFont == 20
LargestFont == 32

(* -------------------------- program constants -------------------------- *)
\* Pool(2)
PoolSize == 2
\* stop_after_attempt(3) on write_video_with_retry
RenderAttempts == 3
\* stop_after_attempt(3) on upload_to_gcs
UploadAttempts == 3
\* max_lines=3 of get_text_clip
max_lines == 3
\* `font_size > 25` of get_text_clip's while loop
FontFloor == 25
\* `font_size -= 5`
FontStep == 5

Workers == 1..PoolSize
Fields == 1..NumFields
\* a sheet cell of the primary column: 0 is an empty cell (NaN), 1..NumKeys a value
Cells == 0..NumKeys
Handles == {"background_clip", "text_clips", "audio_clips", "composite_audio", "video"}

(* ---------------------------- Python values ---------------------------- *)
PyNone == [py |-> "None"]
PyDict(f) == [py |-> "dict", d |-> f]
PyRaised == [py |-> "raised"]
Pending == [py |-> "pending"]
\* video_details = {} at user_worker.py line 14
EmptyDict == PyDict([n \in {} |-> 0])
\* the URL upload_to_gcs returns for a blob
GcsUrl(bucket, key) == [bucket |-> bucket, blob |-> key]
\* a test that keeps every dict, the empty one too
IsDict(v) == v.py = "dict"

\* bool(res) as used by `if res:` in main
Truthy(v) == v.py = "dict" /\ DOMAIN v.d # {}

(* --------------------------- find_primary_field ------------------------ *)
\* iterate the fields in document order; 0 stands for primary_field = None,
\* -1 for the ValueError raised on a second primary field
RECURSIVE ScanPrimary(_, _, _)
ScanPrimary(m, i, primary_field) ==
    IF i > NumFields THEN primary_field
    ELSE IF m[i]
         THEN IF primary_field # 0 THEN -1
              ELSE ScanPrimary(m, i + 1, i)
         ELSE ScanPrimary(m, i + 1, primary_field)

\* a scan that keeps the first primary field and never raises on a second one
find_first_primary(m) ==
    LET P == {f \in Fields : m[f]}
    IN IF P = {} THEN [raised |-> TRUE, field |-> 0]
       ELSE [raised |-> FALSE, field |-> CHOOSE f \in P : \A g \in P : f <= g]

\* [raised |-> TRUE] or [raised |-> FALSE, field |-> f]
find_primary_field(m) ==
    LET p == ScanPrimary(m, 1, 0)
    IN IF p = -1 \/ p = 0 THEN [raised |-> TRUE, field |-> 0]
       ELSE [raised |-> FALSE, field |-> p]

\* str(row.get(primary_field)) : every cell, empty or not, becomes a non-empty
\* string ("nan" for an empty cell); the cell number stands for that string
PrimaryValue(cell) == cell

\* `if not primary_value` : true only for the empty string
RowDropped(cell) == FALSE

RECURSIVE CollectUsers(_, _)
CollectUsers(rs, i) ==
    IF i > Len(rs) THEN <<>>
    ELSE IF RowDropped(rs[i]) THEN CollectUsers(rs, i + 1)
         ELSE <<PrimaryValue(rs[i])>> \o CollectUsers(rs, i + 1)

\* the except Exception of get_customer_info turns every error into []
get_customer_info(m, rs, readOk) ==
    IF find_primary_field(m).raised THEN <<>>
    ELSE IF ~readOk THEN <<>>
    ELSE CollectUsers(rs, 1)

(* ------------------------------- Init ---------------------------------- *)
\* the locals of one call of generate_the_needful_for_users on a pool worker
IdleWorker ==
    [pc |-> "idle", task |-> 0, cfg |-> "none", text_clips |-> "unbound",
     bound |-> {}, opened |-> {}, closed |-> {}, exc |-> FALSE,
     attempt |-> 0, gvRet |-> "none",
     \* what happened so far in this call (no action reads these)
     failed |-> {}, invalidOutput |-> FALSE, cleanupRaised |-> FALSE,
     encodes |-> <<>>]

\* the record of one call that outlives it: the steps the controller began,
\* in order, and those that really succeeded (no action reads it)
\* and the stage whose except clause ended it; synth is what the synthesis
\* of each audio segment did (empty until Step 3 ran)
NoHist == [processedAtCall |-> FALSE, steps |-> <<>>, succeeded |-> {},
           failedAt |-> "none", synth |-> <<>>]

\* no helper call is being followed
NoCall == [op |-> "none"]

RowSeqs == UNION {[1..n -> Cells] : n \in 1..MaxRows}

Init ==
    /\ mainPc = "load_mapping"
    /\ mapping \in [Fields -> BOOLEAN]
    /\ rows \in RowSeqs
    /\ user_details = <<>>
    /\ unprocessed = <<>>
    /\ nextTask = 1
    /\ results = <<>>
    /\ video_details = <<>>
    /\ processed_users = {}
    \* videos_dir / cover_images_dir are either fresh or still hold the
    \* outputs of an earlier batch run (processed_users does not outlive a run)
    /\ \E leftover \in BOOLEAN :
          disk = [k \in Cells |-> IF leftover
                                   THEN [video |-> "valid", image |-> TRUE]
                                   ELSE [video |-> "missing", image |-> FALSE]]
    /\ gcs = {}
    /\ worker = [w \in Workers |-> IdleWorker]
    /\ hist = <<>>
    /\ log = {}
    /\ fn = NoCall

(* ------------------------------- main() -------------------------------- *)
\* main.py 29-35: the mapping file is opened and parsed; any error aborts
MainLoadMapping ==
    /\ mainPc = "load_mapping"
    /\ \E fileOk \in BOOLEAN :
          mainPc' = IF fileOk THEN "get_customer_info" ELSE "aborted"
    /\ UNCHANGED <<mapping, rows, fn, user_details, unprocessed, nextTask, results, video_details,
                   processed_users, disk, gcs, worker, hist, log>>

\* main.py 44-47: FileNotFoundError when the sheet is absent, otherwise the
\* list get_customer_info returns (never an exception)
MainGetCustomerInfo ==
    /\ mainPc = "get_customer_info"
    /\ \E sheetExists \in BOOLEAN, readOk \in BOOLEAN :
          IF ~sheetExists
          THEN /\ mainPc' = "aborted"
               /\ UNCHANGED user_details
          ELSE /\ user_details' = get_customer_info(mapping, rows, readOk)
               /\ mainPc' = "load_audio_config"
    /\ UNCHANGED <<mapping, rows, fn, unprocessed, nextTask, results, video_details,
                   processed_users, disk, gcs, worker, hist, log>>

\* main.py 50-52: an empty audio configuration raises ValueError
MainLoadAudioConfig ==
    /\ mainPc = "load_audio_config"
    /\ \E audioOk \in BOOLEAN :
          mainPc' = IF audioOk THEN "start_pool" ELSE "aborted"
    /\ UNCHANGED <<mapping, rows, fn, user_details, unprocessed, nextTask, results, video_details,
                   processed_users, disk, gcs, worker, hist, log>>

\* main.py 67-86: processed_users starts empty, so the filter keeps every
\* user; the pool is only created for a non-empty list
MainStartPool ==
    /\ mainPc = "start_pool"
    /\ LET todo == SelectSeq(user_details, LAMBDA k : k \notin processed_users)
       IN /\ unprocessed' = todo
          /\ IF todo = <<>>
             THEN /\ mainPc' = "completed"
                  /\ UNCHANGED <<results, hist>>
             ELSE /\ mainPc' = "map"
                  /\ results' = [i \in 1..Len(todo) |-> Pending]
                  /\ hist' = [i \in 1..Len(todo) |-> NoHist]
    /\ UNCHANGED <<mapping, rows, fn, user_details, nextTask, video_details,
                   processed_users, disk, gcs, worker, log>>

\* main.py 86-99: pool.map returns when every call returned, re-raising a
\* worker's exception; truthy results are kept, the others only logged
MainCollect ==
    /\ mainPc = "map"
    /\ \A i \in 1..Len(results) : results[i] # Pending
    /\ IF \E i \in 1..Len(results) : results[i] = PyRaised
       THEN /\ mainPc' = "aborted"
            /\ UNCHANGED <<video_details, log>>
       ELSE /\ mainPc' = "completed"
            /\ video_details' = SelectSeq(results, Truthy)
            /\ log' = IF \E i \in 1..Len(results) : ~Truthy(results[i])
                      THEN log \cup {[key |-> -1, stage |-> "Failed to process a user"]}
                      ELSE log
    /\ UNCHANGED <<mapping, rows, fn, user_details, unprocessed, nextTask, results,
                   processed_users, disk, gcs, worker, hist>>

(* ------------------- generate_the_needful_for_users -------------------- *)
\* user_details['key'] of the row this call was handed
Key(w) == unprocessed[worker[w].task]
T(w) == worker[w].task

\* the order of the controller's steps in user_worker.py
StepOrder == <<"config", "script", "audio", "dirs", "render",
               "cover_upload", "video_upload", "mark">>

\* the membership test left out: no call is ever skipped
SkipCheckDisabled(key, processed) == FALSE

\* `if user_key in processed_users`
SkipCheck(key, processed) == key \in processed

\* read_configuration catches every error itself and returns {} instead
read_configuration(fileOk) ==
    [raised |-> FALSE, value |-> IF fileOk THEN "valid" ELSE "empty"]

\* the render step's try block without its except clause
CatchesAllButRender(stage) ==
    stage \in {"config", "script", "audio", "dirs", "cover_upload", "video_upload"}

\* every step of the controller sits in its own try / except Exception
ControllerCatches(stage) ==
    stage \in {"config", "script", "audio", "dirs", "render",
               "cover_upload", "video_upload"}

\* a failure exit that returns None like the skip
FailureResultNone == PyNone

\* `return video_details` on a failure exit: still the {} of line 14
FailureResult == EmptyDict

\* the record built at user_worker.py 123-129
SuccessResult(key) ==
    PyDict([key |-> key,
            voiceover_gcs_path |-> "",
            video_gcs_path |-> GcsUrl("video", key),
            cover_image_gcs_path |-> GcsUrl("cover_image", key),
            video_duration |-> "video_duration"])

Begin(h, step) == [h EXCEPT !.steps = Append(@, step)]
Ok(h, step) == [h EXCEPT !.succeeded = @ \cup {step}]

\* the call returns value v: the worker is free again
Return(w, v) ==
    /\ results' = [results EXCEPT ![worker[w].task] = v]
    /\ worker' = [worker EXCEPT ![w] = IdleWorker]

\* an except clause that starts the call over instead of returning
FailRetry(w, stage, h) ==
    /\ hist' = [hist EXCEPT ![T(w)] = [h EXCEPT !.failedAt = stage]]
    /\ worker' = [worker EXCEPT ![w] = [IdleWorker EXCEPT !.pc = "read_config",
                                                          !.task = T(w)]]
    /\ UNCHANGED <<results, log>>

\* a step raised: the except clause logs and returns, or nothing catches it
\* and the exception reaches pool.map
FailExit(w, stage, h) ==
    /\ hist' = [hist EXCEPT ![T(w)] = [h EXCEPT !.failedAt = stage]]
    /\ IF ControllerCatches(stage)
       THEN /\ log' = log \cup {[key |-> Key(w), stage |-> stage]}
            /\ Return(w, FailureResult)
       ELSE /\ Return(w, PyRaised)
            /\ UNCHANGED log

\* an idle pool worker takes the next user of the list (chunksize 1)
Take(w) ==
    /\ mainPc = "map"
    /\ worker[w].pc = "idle"
    /\ nextTask <= Len(results)
    /\ worker' = [worker EXCEPT ![w] = [IdleWorker EXCEPT !.pc = "skip_check",
                                                          !.task = nextTask]]
    /\ nextTask' = nextTask + 1
    /\ hist' = [hist EXCEPT ![nextTask].processedAtCall =
                                unprocessed[nextTask] \in processed_users]
    /\ UNCHANGED <<mainPc, mapping, rows, fn, user_details, unprocessed, results,
                   video_details, processed_users, disk, gcs, log>>

\* Step 0, user_worker.py 17-22
Step0(w) ==
    /\ worker[w].pc = "skip_check"
    /\ IF SkipCheck(Key(w), processed_users)
       THEN Return(w, PyNone)
       ELSE /\ worker' = [worker EXCEPT ![w].pc = "read_config"]
            /\ UNCHANGED results
    /\ UNCHANGED <<mainPc, mapping, rows, fn, user_details, unprocessed, nextTask, video_details,
                   processed_users, disk, gcs, hist, log>>

\* Step 1, user_worker.py 24-30
Step1(w) ==
    /\ worker[w].pc = "read_config"
    /\ \E fileOk \in BOOLEAN :
          LET r == read_configuration(fileOk)
              h == Begin(hist[worker[w].task], "config")
          IN IF r.raised
             THEN /\ FailExit(w, "config", h)
             ELSE /\ hist' = [hist EXCEPT ![worker[w].task] =
                                   IF fileOk THEN Ok(h, "config") ELSE h]
                  /\ worker' = [worker EXCEPT ![w].pc = "gen_script",
                                              ![w].cfg = r.value]
                  /\ UNCHANGED <<results, log>>
    /\ UNCHANGED <<mainPc, mapping, rows, fn, user_details, unprocessed, nextTask, video_details,
                   processed_users, disk, gcs>>

\* Step 2, user_worker.py 32-40: generate_voiceover_script iterates
\* video_config.get("audio_segments"), which is None for the {} of a failed read
Step2(w) ==
    /\ worker[w].pc = "gen_script"
    /\ \E scriptOk \in BOOLEAN :
          LET ok == scriptOk /\ worker[w].cfg = "valid"
              h == Begin(hist[worker[w].task], "script")
          IN IF ok
             THEN /\ hist' = [hist EXCEPT ![worker[w].task] = Ok(h, "script")]
                  /\ worker' = [worker EXCEPT ![w].pc = "gen_audio"]
                  /\ UNCHANGED <<results, log>>
             ELSE /\ FailExit(w, "script", h)
    /\ UNCHANGED <<mainPc, mapping, rows, fn, user_details, unprocessed, nextTask, video_details,
                   processed_users, disk, gcs>>

\* generate_audio_content: the synthesized bytes, or None after any error
generate_audio_content(synthOk) == IF synthOk THEN "bytes" ELSE "None"

\* the loop of generate_audio_files from segment idx on: audio_file.write(None)
\* raises TypeError, which ends the loop
RECURSIVE SynthesizeFrom(_, _, _)
SynthesizeFrom(outcomes, idx, combined_audio_data) ==
    IF idx > Len(outcomes) THEN [raised |-> FALSE, data |-> combined_audio_data]
    ELSE IF generate_audio_content(outcomes[idx]) = "None"
         THEN [raised |-> TRUE, data |-> combined_audio_data]
         ELSE SynthesizeFrom(outcomes, idx + 1, Append(combined_audio_data, idx))

\* a synthesis that leaves out the segments that failed and returns the rest
generate_audio_files_partial(outcomes) ==
    SelectSeq([i \in 1..Len(outcomes) |-> i], LAMBDA i : outcomes[i])

\* voiceover.py 50-96: the list of all segments, or [] when anything raised
generate_audio_files(outcomes) ==
    LET r == SynthesizeFrom(outcomes, 1, <<>>)
    IN IF r.raised THEN <<>> ELSE r.data

\* Step 3, user_worker.py 42-50: the controller turns the [] of
\* generate_audio_files into ValueError
Step3(w) ==
    /\ worker[w].pc = "gen_audio"
    /\ \E outcomes \in [1..NumSegments -> BOOLEAN] :
          LET audio_files == generate_audio_files(outcomes)
              h == [Begin(hist[worker[w].task], "audio") EXCEPT !.synth = outcomes]
          IN IF audio_files # <<>>
             THEN /\ hist' = [hist EXCEPT ![worker[w].task] = Ok(h, "audio")]
                  /\ worker' = [worker EXCEPT ![w].pc = "make_dirs"]
                  /\ UNCHANGED <<results, log>>
             ELSE /\ FailExit(w, "audio", h)
    /\ UNCHANGED <<mainPc, mapping, rows, fn, user_details, unprocessed, nextTask, video_details,
                   processed_users, disk, gcs>>

\* Step 4, user_worker.py 55-65
Step4(w) ==
    /\ worker[w].pc = "make_dirs"
    /\ \E dirsOk \in BOOLEAN :
          LET h == Begin(hist[worker[w].task], "dirs")
          IN IF dirsOk
             THEN /\ hist' = [hist EXCEPT ![worker[w].task] = Ok(h, "dirs")]
                  /\ worker' = [worker EXCEPT ![w].pc = "gv_background"]
                  /\ UNCHANGED <<results, log>>
             ELSE /\ FailExit(w, "dirs", h)
    /\ UNCHANGED <<mainPc, mapping, rows, fn, user_details, unprocessed, nextTask, video_details,
                   processed_users, disk, gcs>>

(* --------------------- generate_video / make_video --------------------- *)
\* the shared frame of the steps that touch neither the sheet nor main()
Frame == UNCHANGED <<mainPc, mapping, rows, fn, user_details, unprocessed, nextTask,
                     video_details>>

\* a compose phase of this call failed
Fail(r, phase) == [r EXCEPT !.failed = @ \cup {phase}]

\* video.py 101-111: the empty-configuration check and get_background_clip;
\* an exception goes to the except clause (return None) and then the finally
GvBackground(w) ==
    /\ worker[w].pc = "gv_background"
    /\ \E clipOk \in BOOLEAN :
          worker' = [worker EXCEPT ![w] =
              IF clipOk /\ @.cfg = "valid"
              THEN [@ EXCEPT !.pc = "gv_text",
                             !.bound = @ \cup {"background_clip"},
                             !.opened = @ \cup {"background_clip"}]
              ELSE Fail([@ EXCEPT !.pc = "gv_finally", !.exc = TRUE],
                        "background")]
    /\ hist' = [hist EXCEPT ![T(w)] = Begin(@, "render")]
    /\ Frame
    /\ UNCHANGED <<results, processed_users, disk, gcs, log>>

\* video.py 112-117: process_customer_data may raise (text_clips stays
\* unbound); generate_text_clips returns a list or None, and None raises
GvText(w) ==
    /\ worker[w].pc = "gv_text"
    /\ \E outcome \in {"list", "None", "unbound"} :
          worker' = [worker EXCEPT ![w] =
              IF outcome = "list"
              THEN [@ EXCEPT !.pc = "gv_audio",
                             !.text_clips = "list",
                             !.opened = @ \cup {"text_clips"}]
              ELSE Fail([@ EXCEPT !.pc = "gv_finally",
                                  !.text_clips = outcome,
                                  !.exc = TRUE], "overlay")]
    /\ Frame
    /\ UNCHANGED <<results, processed_users, disk, gcs, hist, log>>

\* video.py 121 and 142-163: get_audio_clips opens one AudioFileClip per
\* matched segment; if one of them raises, the clips opened before it are
\* lost with the local list and audio_clips stays unbound
GvAudio(w) ==
    /\ worker[w].pc = "gv_audio"
    /\ \E clipsOk \in BOOLEAN, openedSome \in BOOLEAN :
          /\ clipsOk => openedSome
          /\ worker' = [worker EXCEPT ![w] =
                IF clipsOk
                THEN [@ EXCEPT !.pc = "mv_music",
                               !.bound = @ \cup {"audio_clips"},
                               !.opened = @ \cup {"audio_clips"}]
                ELSE Fail([@ EXCEPT !.pc = "gv_finally",
                                    !.exc = TRUE,
                                    !.opened = IF openedSome
                                               THEN @ \cup {"audio_clips"}
                                               ELSE @], "audio")]
    /\ Frame
    /\ UNCHANGED <<results, processed_users, disk, gcs, hist, log>>

\* video.py 218: the background music is loaded; make_video's except clause
\* only logs, so a failure continues at make_video's finally
MvMusic(w) ==
    /\ worker[w].pc = "mv_music"
    /\ \E musicOk \in BOOLEAN :
          worker' = [worker EXCEPT ![w] =
              IF musicOk THEN [@ EXCEPT !.pc = "mv_composite"]
              ELSE Fail([@ EXCEPT !.pc = "mv_finally"], "audio")]
    /\ Frame
    /\ UNCHANGED <<results, processed_users, disk, gcs, hist, log>>

\* video.py 221-227: composite_audio, then video
MvComposite(w) ==
    /\ worker[w].pc = "mv_composite"
    /\ \E outcome \in {"ok", "audio_failed", "video_failed"} :
          worker' = [worker EXCEPT ![w] =
              CASE outcome = "ok" ->
                     [@ EXCEPT !.pc = "mv_write",
                               !.attempt = 0,
                               !.bound = @ \cup {"composite_audio", "video"},
                               !.opened = @ \cup {"composite_audio", "video"}]
                [] outcome = "audio_failed" ->
                     Fail([@ EXCEPT !.pc = "mv_finally"], "audio")
                [] outcome = "video_failed" ->
                     Fail([@ EXCEPT !.pc = "mv_finally",
                                    !.bound = @ \cup {"composite_audio"},
                                    !.opened = @ \cup {"composite_audio"}],
                          "render")]
    /\ Frame
    /\ UNCHANGED <<results, processed_users, disk, gcs, hist, log>>

\* off by one: stops one attempt late
stop_one_attempt_late(n, attempt_number) == attempt_number >= n + 1

\* tenacity's stop_after_attempt(n): no further attempt once n were made
stop_after_attempt(n, attempt_number) == attempt_number >= n

\* tenacity retries only a call that raised
retry_wanted(callOk) == ~callOk

\* video.py 211-213 and 233: one attempt of write_video_with_retry.  A
\* successful encode leaves a file that may still be empty; a failed one
\* leaves the old file or a truncated one.  After the last failed attempt
\* RetryError goes to make_video's except clause.
MvWrite(w) ==
    /\ worker[w].pc = "mv_write"
    /\ \E encodeOk \in BOOLEAN, file \in {"valid", "empty", "kept"} :
          LET n == worker[w].attempt + 1
              r == [worker[w] EXCEPT !.attempt = n,
                                     !.encodes = Append(@, encodeOk)]
          IN /\ encodeOk => file # "kept"
             /\ ~encodeOk => file # "valid"
             /\ disk' = IF file = "kept" THEN disk
                        ELSE [disk EXCEPT ![Key(w)].video = file]
             /\ worker' = [worker EXCEPT ![w] =
                   IF ~retry_wanted(encodeOk)
                   THEN [r EXCEPT !.pc = "mv_verify"]
                   ELSE IF stop_after_attempt(RenderAttempts, n)
                   THEN Fail([r EXCEPT !.pc = "mv_finally"], "render")
                   ELSE r]
    /\ Frame
    /\ UNCHANGED <<results, processed_users, gcs, hist, log>>

\* os.path.exists(output_path) and os.path.getsize(output_path) != 0
OutputValid(file) == file # "missing" /\ file # "empty"

\* video.py 236-237: ValueError on a missing or empty output, swallowed by
\* the except clause like every other error of make_video
MvVerify(w) ==
    /\ worker[w].pc = "mv_verify"
    /\ worker' = [worker EXCEPT ![w] =
          IF OutputValid(disk[Key(w)].video)
          THEN [@ EXCEPT !.pc = "mv_thumb"]
          ELSE Fail([@ EXCEPT !.pc = "mv_finally", !.invalidOutput = TRUE],
                    "verify")]
    /\ Frame
    /\ UNCHANGED <<results, processed_users, disk, gcs, hist, log>>

\* video.py 240-242: the thumbnail frame is saved next to the video
MvThumb(w) ==
    /\ worker[w].pc = "mv_thumb"
    /\ \E frameOk \in BOOLEAN :
          IF frameOk
          THEN /\ disk' = [disk EXCEPT ![Key(w)].image = TRUE]
               /\ worker' = [worker EXCEPT ![w].pc = "mv_finally"]
          ELSE /\ worker' = [worker EXCEPT ![w] =
                     Fail([@ EXCEPT !.pc = "mv_finally"], "thumbnail")]
               /\ UNCHANGED disk
    /\ Frame
    /\ UNCHANGED <<results, processed_users, gcs, hist, log>>

\* video.py 250-255: video.close() comes first and raises UnboundLocalError
\* when video was never assigned; otherwise all four closes run and
\* make_video returns normally whatever happened in its try block
MvFinally(w) ==
    /\ worker[w].pc = "mv_finally"
    /\ worker' = [worker EXCEPT ![w] =
          IF "video" \in @.bound
          THEN [@ EXCEPT !.pc = "gv_finally",
                         !.closed = @ \cup {"video", "audio_clips",
                                            "background_clip", "composite_audio"}]
          ELSE [@ EXCEPT !.pc = "gv_finally",
                         !.exc = TRUE,
                         !.cleanupRaised = TRUE]]
    /\ Frame
    /\ UNCHANGED <<results, processed_users, disk, gcs, hist, log>>

\* video.py 128-140: the value on its way out is video_duration, or None
\* when the except clause ran; the finally closes text_clips, audio_clips
\* and background_clip in that order and raises at the first name that is
\* unbound (or None), which replaces the return value by that exception
GvFinally(w) ==
    /\ worker[w].pc = "gv_finally"
    /\ worker' = [worker EXCEPT ![w] =
          IF @.text_clips # "list"
          THEN [@ EXCEPT !.pc = "check_video",
                         !.gvRet = "raised",
                         !.cleanupRaised = TRUE]
          ELSE IF "audio_clips" \notin @.bound
          THEN [@ EXCEPT !.pc = "check_video",
                         !.gvRet = "raised",
                         !.cleanupRaised = TRUE,
                         !.closed = @ \cup {"text_clips"}]
          ELSE [@ EXCEPT !.pc = "check_video",
                         !.gvRet = IF worker[w].exc THEN "None" ELSE "duration",
                         !.closed = @ \cup {"text_clips", "audio_clips",
                                            "background_clip"}]]
    /\ Frame
    /\ UNCHANGED <<results, processed_users, disk, gcs, hist, log>>

\* Step 5, user_worker.py 72-79: a falsy return value or an exception of
\* generate_video ends the call, a duration lets it go on
CheckVideo(w) ==
    /\ worker[w].pc = "check_video"
    /\ IF worker[w].gvRet = "duration"
       THEN /\ worker' = [worker EXCEPT ![w].pc = "upload_cover",
                                        ![w].attempt = 0]
            /\ hist' = [hist EXCEPT ![T(w)] =
                             IF worker[w].failed = {} THEN Ok(@, "render") ELSE @]
            /\ UNCHANGED <<results, log>>
       ELSE /\ FailExit(w, "render", hist[T(w)])
    /\ Frame
    /\ UNCHANGED <<processed_users, disk, gcs>>

(* ------------------------------ uploads -------------------------------- *)
\* gcs_utils.py 38-64: one attempt of upload_to_gcs for `blob`; it needs the
\* local file and the network.  The step of the controller fails when the
\* last attempt failed.
UploadAttempt(w, bucket, stage, fileThere, nextPc) ==
    \E netOk \in BOOLEAN :
       LET n == worker[w].attempt + 1
           h == IF worker[w].attempt = 0 THEN Begin(hist[T(w)], stage)
                ELSE hist[T(w)]
       IN IF netOk /\ fileThere
          THEN /\ gcs' = gcs \cup {GcsUrl(bucket, Key(w))}
               /\ worker' = [worker EXCEPT ![w].pc = nextPc, ![w].attempt = 0]
               /\ hist' = [hist EXCEPT ![T(w)] = Ok(h, stage)]
               /\ UNCHANGED <<results, log>>
          ELSE IF stop_after_attempt(UploadAttempts, n)
          THEN /\ FailExit(w, stage, h)
               /\ UNCHANGED gcs
          ELSE /\ worker' = [worker EXCEPT ![w].attempt = n]
               /\ hist' = [hist EXCEPT ![T(w)] = h]
               /\ UNCHANGED <<results, log, gcs>>

\* Step 6, user_worker.py 84-93
UploadCover(w) ==
    /\ worker[w].pc = "upload_cover"
    /\ UploadAttempt(w, "cover_image", "cover_upload", disk[Key(w)].image,
                     "upload_video")
    /\ Frame
    /\ UNCHANGED <<processed_users, disk>>

\* Step 7, user_worker.py 95-104
UploadVideo(w) ==
    /\ worker[w].pc = "upload_video"
    /\ UploadAttempt(w, "video", "video_upload",
                     disk[Key(w)].video # "missing", "mark")
    /\ Frame
    /\ UNCHANGED <<processed_users, disk>>

\* Step 9, user_worker.py 119-134
MarkProcessed(w) ==
    /\ worker[w].pc = "mark"
    /\ processed_users' = processed_users \cup {Key(w)}
    /\ hist' = [hist EXCEPT ![T(w)] = Ok(Begin(@, "mark"), "mark")]
    /\ Return(w, SuccessResult(Key(w)))
    /\ Frame
    /\ UNCHANGED <<disk, gcs, log>>

(* ---------------------------- specification ---------------------------- *)
Next ==
    \/ MainLoadMapping
    \/ MainGetCustomerInfo
    \/ MainLoadAudioConfig
    \/ MainStartPool
    \/ MainCollect
    \/ \E w \in Workers : Take(w)
    \/ \E w \in Workers : Step0(w)
    \/ \E w \in Workers : Step1(w)
    \/ \E w \in Workers : Step2(w)
    \/ \E w \in Workers : Step3(w)
    \/ \E w \in Workers : Step4(w)
    \/ \E w \in Workers : GvBackground(w)
    \/ \E w \in Workers : GvText(w)
    \/ \E w \in Workers : GvAudio(w)
    \/ \E w \in Workers : MvMusic(w)
    \/ \E w \in Workers : MvComposite(w)
    \/ \E w \in Workers : MvWrite(w)
    \/ \E w \in Workers : MvVerify(w)
    \/ \E w \in Workers : MvThumb(w)
    \/ \E w \in Workers : MvFinally(w)
    \/ \E w \in Workers : GvFinally(w)
    \/ \E w \in Workers : CheckVideo(w)
    \/ \E w \in Workers : UploadCover(w)
    \/ \E w \in Workers : UploadVideo(w)
    \/ \E w \in Workers : MarkProcessed(w)

Spec == Init /\ [][Next]_vars

\* a batch whose mapping document is well formed: its first field is the
\* primary one
LiveInit ==
    /\ Init
    /\ mapping = [f \in Fields |-> f = 1]

\* every external call returns and the pool keeps scheduling: a step that can
\* be taken is eventually taken
FairSpec == LiveInit /\ [][Next]_vars /\ WF_vars(Next)

(* --------------------------- helper calls ------------------------------ *)
\* the batch's own variables, which a helper call leaves alone
mainVars == <<mainPc, mapping, rows, user_details, unprocessed, nextTask,
              results, video_details, processed_users, disk, gcs, worker,
              hist, log>>

\* no batch is running while a helper call is followed on its own
NoBatch ==
    /\ mainPc = "none"
    /\ mapping = [f \in Fields |-> FALSE]
    /\ rows = <<>>
    /\ user_details = <<>>
    /\ unprocessed = <<>>
    /\ nextTask = 1
    /\ results = <<>>
    /\ video_details = <<>>
    /\ processed_users = {}
    /\ disk = [k \in Cells |-> [video |-> "missing", image |-> FALSE]]
    /\ gcs = {}
    /\ worker = [w \in Workers |-> IdleWorker]
    /\ hist = <<>>
    /\ log = {}

\* a Python dict is a function whose domain is the keys present
NoKeys == [k \in {} |-> 0]
Entry(k, present, v) == IF present THEN k :> v ELSE NoKeys
DictGet(d, k, default) == IF k \in DOMAIN d THEN d[k] ELSE default

(* -------------------------- get_background_clip ------------------------ *)
\* video_config['backgrounds'][template_selection_key]: an entry for the
\* template value "Mumbai" and a declared default, each present or not
BackgroundTables ==
    {Entry("Mumbai", hasValue, "mumbai.mp4") @@
     Entry("default", hasDefault, "declared_default.mp4") :
        hasValue \in BOOLEAN, hasDefault \in BOOLEAN}

\* customer_data[template_selection_key]: a value with a template, a value
\* without one, or no such key at all
CustomerValues == {"Mumbai", "Pune", "absent"}

\* the files that may exist in templates_folder
TemplateFiles == {"mumbai.mp4", "declared_default.mp4", "default.mp4"}

\* video.py 165-184.  The default argument of the first .get is evaluated
\* before the call (KeyError when no default is declared); VideoFileClip
\* raises for a path that does not exist
get_background_clip(table, customer_value, files) ==
    LET template_value == IF customer_value = "absent" THEN "default"
                          ELSE customer_value
    IN IF "default" \notin DOMAIN table
       THEN [raised |-> TRUE, path |-> "none", warned |-> FALSE]
       ELSE LET first == DictGet(table, template_value, table["default"])
                missing == first \notin files
                background_path ==
                    IF missing THEN DictGet(table, "default", "default.mp4")
                    ELSE first
            IN IF background_path \in files
               THEN [raised |-> FALSE, path |-> background_path, warned |-> missing]
               ELSE [raised |-> TRUE, path |-> background_path, warned |-> missing]

BackgroundCalls ==
    {[op |-> "background", pc |-> "call", table |-> t, value |-> v, files |-> f] :
        t \in BackgroundTables, v \in CustomerValues, f \in SUBSET TemplateFiles}

\* generate_video calls get_background_clip (video.py 111)
BgCall ==
    /\ fn.op = "background"
    /\ fn.pc = "call"
    /\ fn' = [op |-> "background", pc |-> "done", table |-> fn.table,
              value |-> fn.value, files |-> fn.files,
              ret |-> get_background_clip(fn.table, fn.value, fn.files)]
    /\ UNCHANGED mainVars

(* ------------------------------ get_text_clip -------------------------- *)
\* the text fits the box on `lines` lines at every font size up to the
\* threshold of that line count; 0 means it never fits on that many lines
FitThresholds == {0, 22, 24, 27, LargestFont}
InitialFontSizes == SmallestFont..LargestFont
\* len(text) * box['width'] // clip.size[0]
CharLimits == {1, 2, 5}

Fits(thresholds, font_size, lines) == font_size <= thresholds[lines]

\* adjust_text_lines_and_font (utils.py 60-70): the first line count that
\* fits, else the layout of the last line count; textwrap.wrap raises
\* ValueError for a width of 0
RECURSIVE adjust_text_lines_and_font(_, _, _, _)
adjust_text_lines_and_font(thresholds, char_limit, font_size, lines) ==
    IF char_limit \div lines <= 0
    THEN [raised |-> TRUE, lines |-> lines, fits |-> FALSE]
    ELSE IF Fits(thresholds, font_size, lines)
         THEN [raised |-> FALSE, lines |-> lines, fits |-> TRUE]
         ELSE IF lines = max_lines
              THEN [raised |-> FALSE, lines |-> lines, fits |-> FALSE]
              ELSE adjust_text_lines_and_font(thresholds, char_limit,
                                              font_size, lines + 1)

LayoutCalls ==
    {[op |-> "layout", pc |-> "call", initial_font_size |-> f,
      thresholds |-> th, char_limit |-> c] :
        f \in InitialFontSizes, th \in [1..max_lines -> FitThresholds],
        c \in CharLimits}

\* the state of a call after a sweep at font_size
AfterSweep(font_size) ==
    LET r == adjust_text_lines_and_font(fn.thresholds, fn.char_limit, font_size, 1)
    IN [op |-> "layout",
        pc |-> IF r.raised THEN "done" ELSE "loop",
        initial_font_size |-> fn.initial_font_size,
        thresholds |-> fn.thresholds, char_limit |-> fn.char_limit,
        font_size |-> font_size, lines |-> r.lines, fits |-> r.fits,
        \* except Exception: return None
        ret |-> IF r.raised THEN "None" ELSE "pending"]

\* utils.py 50-73: the first sweep at the initial font size
LayoutStart ==
    /\ fn.op = "layout"
    /\ fn.pc = "call"
    /\ fn' = AfterSweep(fn.initial_font_size)
    /\ UNCHANGED mainVars

\* utils.py 76-78: one turn of the while loop
LayoutShrink ==
    /\ fn.op = "layout"
    /\ fn.pc = "loop"
    /\ ~fn.fits /\ fn.font_size > FontFloor
    /\ fn' = AfterSweep(fn.font_size - FontStep)
    /\ UNCHANGED mainVars

\* utils.py 76-87: the loop condition is false, the clip is returned
LayoutReturn ==
    /\ fn.op = "layout"
    /\ fn.pc = "loop"
    /\ ~(~fn.fits /\ fn.font_size > FontFloor)
    /\ fn' = [fn EXCEPT !.pc = "done", !.ret = "clip"]
    /\ UNCHANGED mainVars

(* --------------------------- generate_text_clips ----------------------- *)
\* one entry of config['overlays']: each of the optional keys is present or
\* not; field_name names a field of the processed data, a field that is not
\* in it, or is not given
OverlayDefs ==
    {Entry("default_time", hasStart, 2) @@ Entry("show_till", hasTill, 5) @@
     Entry("duration", hasDuration, 4) @@ Entry("text", hasText, "Hello") @@
     Entry("field_name", field # "absent", field) :
        hasStart \in BOOLEAN, hasTill \in BOOLEAN, hasDuration \in BOOLEAN,
        hasText \in BOOLEAN, field \in {"absent", "city", "rank"}}

\* processed_customer_data: the normalized values of the user's fields
overlay_data == "city" :> "Pune"

\* background_clip.duration
VideoDurations == {4, 10}

OverlaySeqs == UNION {[1..n -> OverlayDefs] : n \in 1..MaxOverlays}

\* video.py 33-34
computed_start_time(overlay) == DictGet(overlay, "default_time", 0)

\* a precedence that prefers the explicit duration to show_till
text_duration_prefers_duration(overlay, video_duration) ==
    IF "duration" \in DOMAIN overlay THEN overlay["duration"]
    ELSE IF "show_till" \in DOMAIN overlay
         THEN overlay["show_till"] - computed_start_time(overlay)
         ELSE video_duration - computed_start_time(overlay)

\* video.py 37-42
text_duration(overlay, video_duration) ==
    IF "show_till" \in DOMAIN overlay
    THEN DictGet(overlay, "show_till", 0) - computed_start_time(overlay)
    ELSE IF "duration" \in DOMAIN overlay
         THEN overlay["duration"]
         ELSE video_duration - computed_start_time(overlay)

\* a choice that prefers the field's value to the literal text
text_value_prefers_field(overlay, data) ==
    LET field_name == DictGet(overlay, "field_name", "None")
    IN IF field_name # "None" /\ field_name \in DOMAIN data
       THEN [skip |-> FALSE, text |-> data[field_name]]
       ELSE IF "text" \in DOMAIN overlay
            THEN [skip |-> FALSE, text |-> overlay["text"]]
            ELSE [skip |-> TRUE, text |-> "none"]

\* video.py 45-51: the text to show, or `continue`
text_value(overlay, data) ==
    LET field_name == DictGet(overlay, "field_name", "None")
    IN IF "text" \in DOMAIN overlay
       THEN [skip |-> FALSE, text |-> overlay["text"]]
       ELSE IF field_name # "None" /\ field_name \in DOMAIN data
            THEN [skip |-> FALSE, text |-> data[field_name]]
            ELSE [skip |-> TRUE, text |-> "none"]

TextClipCalls ==
    {[op |-> "text_clips", pc |-> "loop", overlays |-> ovs,
      video_duration |-> d, i |-> 1, seen |-> <<>>, text_clips |-> <<>>] :
        ovs \in OverlaySeqs, d \in VideoDurations}

\* video.py 27-88: one turn of `for overlay in config['overlays']`;
\* get_text_clip returns a clip or None
TcOverlay ==
    /\ fn.op = "text_clips"
    /\ fn.pc = "loop"
    /\ fn.i <= Len(fn.overlays)
    /\ LET overlay == fn.overlays[fn.i]
           start == computed_start_time(overlay)
           duration == text_duration(overlay, fn.video_duration)
           t == text_value(overlay, overlay_data)
       IN \E text_clip \in IF t.skip THEN {FALSE} ELSE BOOLEAN :
            fn' = [fn EXCEPT
                     !.i = @ + 1,
                     !.seen = Append(@, [start |-> start, duration |-> duration,
                                         skip |-> t.skip, text |-> t.text,
                                         rendered |-> text_clip]),
                     !.text_clips =
                         IF text_clip
                         THEN Append(@, [name |-> fn.i, text |-> t.text,
                                         start |-> start, duration |-> duration])
                         ELSE @]
    /\ UNCHANGED mainVars

\* video.py 90-94: no clip at all is None, which generate_video turns into
\* ValueError (no video is composed)
TcReturn ==
    /\ fn.op = "text_clips"
    /\ fn.pc = "loop"
    /\ fn.i > Len(fn.overlays)
    /\ fn' = [op |-> "text_clips",
              pc |-> IF fn.text_clips = <<>> THEN "done" ELSE "composite",
              overlays |-> fn.overlays, video_duration |-> fn.video_duration,
              i |-> fn.i, seen |-> fn.seen,
              text_clips |-> fn.text_clips,
              ret |-> IF fn.text_clips = <<>> THEN "None" ELSE "list",
              rendered |-> 0, reported |-> 0]
    /\ UNCHANGED mainVars

SetMax(S) == CHOOSE x \in S : \A y \in S : y <= x

\* CompositeVideoClip([background_clip] + text_clips) lasts until the latest
\* end of its clips; set_start(s).set_duration(d) ends a clip at s + d
CompositeDuration(video_duration, clips) ==
    SetMax({video_duration} \cup
           {clips[j].start + clips[j].duration : j \in DOMAIN clips})

\* video.py 227-233 and 128: the composite is what is written; generate_video
\* returns the background's duration
ComposeVideo ==
    /\ fn.op = "text_clips"
    /\ fn.pc = "composite"
    /\ fn' = [fn EXCEPT !.pc = "done",
                        !.rendered = CompositeDuration(fn.video_duration,
                                                       fn.text_clips),
                        !.reported = fn.video_duration]
    /\ UNCHANGED mainVars

(* ------------------------- process_customer_data ---------------------- *)
\* the 'processing' rules of the mapping; "none" is the default branch
ProcessingTypes ==
    {"name", "name_respect", "ordinal", "float", "percentage_readout",
     "percentile_readout", "integer", "percentage", "percentile", "none"}

\* what a sheet cell can hold: a str that is a word ("abc"), a number
\* ("85.5"), a percentage ("85%") or an ordinal ("15th"), or an int or a
\* float (empty cells never get here)
ValueKinds == {"word", "numeric_str", "percent_str", "ordinal_str", "int", "float"}
StrKinds == {"word", "numeric_str", "percent_str", "ordinal_str"}

\* utils.py 257-287: whether the branch of the rule raises for the value.
\* name rules call value.split; ordinal keeps the digits of str(value) and
\* hands them to num2words; float() and clean_percentage parse the str;
\* round() needs a number; sanitize_text needs a str
BranchRaises(processing_type, kind) ==
    CASE processing_type \in {"name", "name_respect"} -> kind \notin StrKinds
      [] processing_type = "ordinal" -> kind = "word"
      [] processing_type = "float" -> kind \in {"word", "percent_str", "ordinal_str"}
      [] processing_type \in {"percentage_readout", "percentile_readout"} ->
             kind \in {"word", "ordinal_str"}
      [] processing_type = "integer" -> FALSE
      [] processing_type \in {"percentage", "percentile"} -> kind \in StrKinds
      [] OTHER -> kind = "float"

\* the loop over customer_data.items() from element i on: there is no
\* try/except, the first branch that raises ends the call
RECURSIVE ProcessFrom(_, _, _)
ProcessFrom(customer_data, i, processed_data) ==
    IF i > Len(customer_data) THEN [raised |-> FALSE, data |-> processed_data]
    ELSE IF BranchRaises(customer_data[i].rule, customer_data[i].kind)
         THEN [raised |-> TRUE, data |-> <<>>]
         ELSE ProcessFrom(customer_data, i + 1, Append(processed_data, "str"))

\* utils.py 227-288
process_customer_data(customer_data) == ProcessFrom(customer_data, 1, <<>>)

DataFields == [rule : ProcessingTypes, kind : ValueKinds]

NormalizeCalls ==
    {[op |-> "normalize", pc |-> "call", customer_data |-> d] :
        d \in UNION {[1..n -> DataFields] : n \in 1..MaxDataFields}}

\* generate_voiceover_script and generate_video call process_customer_data
NormalizeCall ==
    /\ fn.op = "normalize"
    /\ fn.pc = "call"
    /\ fn' = [op |-> "normalize", pc |-> "done",
              customer_data |-> fn.customer_data,
              ret |-> process_customer_data(fn.customer_data)]
    /\ UNCHANGED mainVars

(* ------------------------ generate_voiceover_script -------------------- *)
\* a speech_text is a sequence of pieces: plain words and {field} tokens.
\* Fields a and b may be in the user's data, field c never is.
PlaceholderOf == [a |-> "{a}", b |-> "{b}"]
\* the order of processed_customer_data.items()
FieldOrder == <<"a", "b">>

\* the speech_text templates a configuration may hold
SpeechTexts == {<<"Hi", "{a}">>, <<"{a}", "and", "{b}">>, <<"{c}", "{b}">>}
ConfiguredSegments == [1..NumSegments -> SpeechTexts]

\* the audio-normalized data of one user: a value per field that is present;
\* the cell of field a may itself hold the text {b}
UserData ==
    {Entry("a", va # "absent", va) @@ Entry("b", vb # "absent", vb) :
        va \in {"absent", "Asha", "{b}"}, vb \in {"absent", "Pune"}}

\* speech_text.replace(f'{{{placeholder}}}', str(value))
Replace(speech_text, placeholder, value) ==
    [i \in DOMAIN speech_text |->
        IF speech_text[i] = PlaceholderOf[placeholder] THEN value
        ELSE speech_text[i]]

\* voiceover.py 29-30: one replace after the other, each on the result of
\* the one before
RECURSIVE ReplaceFrom(_, _, _)
ReplaceFrom(speech_text, data, i) ==
    IF i > Len(FieldOrder) THEN speech_text
    ELSE IF FieldOrder[i] \in DOMAIN data
         THEN ReplaceFrom(Replace(speech_text, FieldOrder[i], data[FieldOrder[i]]),
                          data, i + 1)
         ELSE ReplaceFrom(speech_text, data, i + 1)

\* voiceover.py 25-33: every segment of the list it was handed is rewritten
\* in place
generate_voiceover_script(data, audio_segments) ==
    [k \in DOMAIN audio_segments |-> ReplaceFrom(audio_segments[k], data, 1)]

\* a loader that keeps the object of the call before
read_configuration_cached(configured, previous) ==
    IF previous = <<>> THEN configured ELSE previous

\* utils.py 105-118: json.load builds a new object from the file on every
\* call; the object of the call before plays no part
read_configuration_fresh(configured, previous) == configured

\* one pool worker handles a list of users, one call after the other;
\* previous is the video_config object of the call before (<<>> at first)
ScriptCalls ==
    {[op |-> "script", pc |-> "read", configured |-> c, users |-> us, u |-> 1,
      video_config |-> <<>>, previous |-> <<>>, started |-> <<>>,
      scripts |-> <<>>] :
        c \in ConfiguredSegments,
        us \in UNION {[1..n -> UserData] : n \in 1..MaxRows}}

\* Step 1, user_worker.py 24-30
ScRead ==
    /\ fn.op = "script"
    /\ fn.pc = "read"
    /\ fn.u <= Len(fn.users)
    /\ fn' = [fn EXCEPT !.pc = "generate",
                        !.video_config =
                            read_configuration_fresh(fn.configured, fn.previous)]
    /\ UNCHANGED mainVars

\* Step 2, user_worker.py 32-40: the segments of this call's video_config
\* are rewritten in place and returned
ScGenerate ==
    /\ fn.op = "script"
    /\ fn.pc = "generate"
    /\ LET audio_segments == generate_voiceover_script(fn.users[fn.u],
                                                       fn.video_config)
       IN fn' = [fn EXCEPT !.pc = IF fn.u = Len(fn.users) THEN "done" ELSE "read",
                           !.u = @ + 1,
                           !.started = Append(@, fn.video_config),
                           !.scripts = Append(@, audio_segments),
                           !.video_config = <<>>,
                           !.previous = audio_segments]
    /\ UNCHANGED mainVars

(* ----------------------------- get_audio_clips -------------------------- *)
\* segment names as the configuration may spell them; one has a leading space
SegmentNames == {"intro", " intro", "outro"}
StartTimes == {0, 5}

\* str.strip()
strip(name) == IF name = " intro" THEN "intro" ELSE name

\* video.py 146: a dict comprehension; of two files with one name the later
\* one stays
audio_files_dict(audio_files) ==
    LET names == {audio_files[i].segment_name : i \in DOMAIN audio_files}
    IN [n \in names |->
           audio_files[CHOOSE i \in DOMAIN audio_files :
                          /\ audio_files[i].segment_name = n
                          /\ \A j \in DOMAIN audio_files :
                                audio_files[j].segment_name = n => j <= i]]

\* video.py 148-161: the loop over the configured segments from segment i on
RECURSIVE ClipsFrom(_, _, _, _)
ClipsFrom(files_dict, audio_segments, i, audio_clips) ==
    IF i > Len(audio_segments) THEN audio_clips
    ELSE LET segment_name == strip(audio_segments[i].segment_name)
         IN IF segment_name \in DOMAIN files_dict
            THEN ClipsFrom(files_dict, audio_segments, i + 1,
                           Append(audio_clips,
                                  [file |-> files_dict[segment_name].file,
                                   start |-> audio_segments[i].start_time]))
            ELSE ClipsFrom(files_dict, audio_segments, i + 1, audio_clips)

get_audio_clips(audio_files, audio_segments) ==
    ClipsFrom(audio_files_dict(audio_files), audio_segments, 1, <<>>)

\* voiceover.py 57-84: file idx is recorded under the name of segment idx,
\* spelled as configured; the lists below also hold files of other names
AudioFileLists ==
    UNION {[1..n -> SegmentNames] : n \in 1..NumSegments}
AudioSegmentLists ==
    UNION {[1..n -> [segment_name : SegmentNames, start_time : StartTimes]] :
              n \in 1..NumSegments}

AudioClipCalls ==
    {[op |-> "audio", pc |-> "call",
      audio_files |-> [i \in DOMAIN names |->
                          [segment_name |-> names[i], file |-> i]],
      audio_segments |-> segs, out |-> <<>>] :
        names \in AudioFileLists, segs \in AudioSegmentLists}

\* video.py 121
AudioClipCall ==
    /\ fn.op = "audio"
    /\ fn.pc = "call"
    /\ fn' = [fn EXCEPT !.pc = "done",
                        !.out = get_audio_clips(fn.audio_files,
                                                fn.audio_segments)]
    /\ UNCHANGED mainVars

(* ----------------------- helper-call specification --------------------- *)
FnInit ==
    /\ NoBatch
    /\ \/ fn \in BackgroundCalls
       \/ fn \in LayoutCalls
       \/ fn \in TextClipCalls
       \/ fn \in NormalizeCalls
       \/ fn \in ScriptCalls
       \/ fn \in AudioClipCalls

FnNext ==
    \/ BgCall
    \/ LayoutStart
    \/ LayoutShrink
    \/ LayoutReturn
    \/ TcOverlay
    \/ TcReturn
    \/ ComposeVideo
    \/ NormalizeCall
    \/ ScRead
    \/ ScGenerate
    \/ AudioClipCall

FnSpec == FnInit /\ [][FnNext]_vars

(* ------------------------------- claims -------------------------------- *)
Tasks == DOMAIN hist
Busy(t) == \E w \in Workers : worker[w].task = t

\* C1: a call whose key is already in processed_users when it is called
\* returns None at the skip check and begins no step at all (no config read,
\* script, synthesis, directory, render or upload).
C1_SkipBeforeAnyStep ==
    \A t \in Tasks :
       hist[t].processedAtCall =>
          /\ hist[t].steps = <<>>
          /\ results[t] \in {Pending, PyNone}
          /\ \A w \in Workers : worker[w].task = t => worker[w].pc = "skip_check"

\* a call for an already processed key has returned
C1_Witness ==
    \E t \in Tasks : hist[t].processedAtCall /\ results[t] = PyNone

\* C2: the steps a call began are a prefix of the fixed order, and every
\* step but the last one begun succeeded (a failed config load means no
\* script generation, a failed render means no upload).
C2_StepsArePrefixOfSuccesses ==
    \A t \in Tasks :
       /\ Len(hist[t].steps) <= Len(StepOrder)
       /\ \A i \in 1..Len(hist[t].steps) : hist[t].steps[i] = StepOrder[i]
       /\ \A i \in 1..(Len(hist[t].steps) - 1) :
             hist[t].steps[i] \in hist[t].succeeded

\* C3: a key is in processed_users only if a call for that key had its
\* render, its cover-image upload and its video upload all succeed.
C3_ProcessedOnlyAfterSuccess ==
    \A k \in processed_users :
       \E t \in Tasks :
          /\ unprocessed[t] = k
          /\ {"render", "cover_upload", "video_upload"} \subseteq hist[t].succeeded

\* C4: no error of a per-user step leaves generate_the_needful_for_users:
\* no call hands an exception to pool.map, every failure exit returns a
\* value, and main never aborts once the pool is running.
C4_NoErrorEscapesTheWorker ==
    /\ \A t \in Tasks : results[t] # PyRaised
    /\ \A t \in Tasks : hist[t].failedAt # "none" /\ ~Busy(t) => results[t].py = "dict"
    /\ (mainPc = "aborted" => unprocessed = <<>>)

\* one user failed at the render step and another user of the batch was
\* still processed to the end
C4_Witness ==
    \E t1 \in Tasks, t2 \in Tasks :
       /\ hist[t1].failedAt = "render"
       /\ results[t1] = FailureResult
       /\ "mark" \in hist[t2].succeeded
       /\ mainPc = "completed"

C6_InvalidOutputIsFailure ==
    \A w \in Workers :
       worker[w].invalidOutput =>
          /\ worker[w].gvRet # "duration"
          /\ worker[w].pc \notin {"upload_cover", "upload_video", "mark"}

\* C7: generate_video returns a duration only when background selection,
\* overlay generation, audio mixing, render and thumbnail all succeeded.
C7_DurationOnlyWhenAllPhasesSucceeded ==
    \A w \in Workers :
       worker[w].gvRet = "duration" =>
          worker[w].failed \cap {"background", "overlay", "audio", "render",
                                 "thumbnail"} = {}

\* C8: the encode is attempted at most 3 times per call; every attempt but
\* the last one made failed (none follows a success), and after a third
\* failure the call has left the retry loop.
C8_AtMostThreeEncodes ==
    \A w \in Workers :
       LET e == worker[w].encodes
       IN /\ Len(e) <= 3
          /\ \A i \in 1..(Len(e) - 1) : ~e[i]
          /\ (Len(e) > 0 /\ e[Len(e)] => worker[w].pc # "mv_write")
          /\ (Len(e) = 3 => worker[w].pc # "mv_write")

\* the third attempt failed too
C8_Witness ==
    \E w \in Workers :
       /\ worker[w].encodes = <<FALSE, FALSE, FALSE>>
       /\ worker[w].pc = "mv_finally"

\* C9: when generate_video is left, every handle opened during the call is
\* closed and no cleanup statement raised.
C9_HandlesReleasedOnEveryExit ==
    \A w \in Workers :
       worker[w].pc = "check_video" =>
          /\ worker[w].opened \subseteq worker[w].closed
          /\ ~worker[w].cleanupRaised

\* C10: with zero or several primary fields in the mapping the run aborts;
\* it never completes normally.
C10_BadPrimaryAborts ==
    Cardinality({f \in Fields : mapping[f]}) # 1 => mainPc # "completed"

\* the fields of the mapping document whose IsPrimary attribute is "True"
MarkedPrimary == {f \in Fields : mapping[f]}

\* C11: find_primary_field returns the one field marked IsPrimary when exactly
\* one field is marked, and raises when none or more than one is marked; the
\* sheet is only collected into users after the field was found.
C11_ExactlyOnePrimaryElseError ==
    LET r == find_primary_field(mapping)
    IN /\ Cardinality(MarkedPrimary) = 1 => ~r.raised /\ r.field \in MarkedPrimary
       /\ Cardinality(MarkedPrimary) # 1 => r.raised
       /\ user_details # <<>> => Cardinality(MarkedPrimary) = 1

\* a mapping with one primary field, a later field not primary, users collected
C11_Witness ==
    /\ mainPc = "load_audio_config"
    /\ user_details # <<>>
    /\ find_primary_field(mapping) = [raised |-> FALSE, field |-> 1]
    /\ MarkedPrimary = {1}

\* C12: a sheet row whose primary cell is empty contributes no user: the users
\* handed to the pool are exactly the rows with a primary value.
C12_MissingPrimaryRowDropped ==
    mainPc = "map" =>
        Len(unprocessed) = Cardinality({i \in DOMAIN rows : rows[i] # 0})

\* C13: a call for a key that an earlier call already marked processed does
\* nothing but return None: the step that ends it leaves the processed set,
\* the files on disk, the uploaded blobs and the batch's records as they were,
\* and it began no step.
C13_SecondRunIsCleanSkip ==
    [][\A w \in Workers :
          (worker[w].pc = "skip_check" /\ Key(w) \in processed_users) =>
             \/ worker'[w] = worker[w]
             \/ /\ worker'[w] = IdleWorker
                /\ results'[T(w)] = PyNone
                /\ hist'[T(w)].steps = <<>>
                /\ processed_users' = processed_users
                /\ disk' = disk
                /\ gcs' = gcs
                /\ video_details' = video_details]_vars

\* the first call for a key ran to its end, the second one was skipped
C13_Witness ==
    \E t1, t2 \in Tasks :
        /\ t1 < t2
        /\ unprocessed[t1] = unprocessed[t2]
        /\ "mark" \in hist[t1].succeeded
        /\ results[t1] = SuccessResult(unprocessed[t1])
        /\ hist[t2].processedAtCall
        /\ ~Busy(t2)
        /\ results[t2] = PyNone
        /\ unprocessed[t2] \in processed_users

\* C14: once the pre-flight loading is through and the pool is about to start,
\* the batch eventually reaches its completion state, whatever the users and
\* whichever of their steps fail.
C14_BatchEventuallyCompletes ==
    (mainPc = "start_pool") ~> (mainPc = "completed")

\* a batch that completed although two users went through the pool and one of
\* them failed
C14_Witness ==
    /\ mainPc = "completed"
    /\ Len(results) = 2
    /\ \E t \in Tasks : hist[t].failedAt # "none" /\ results[t] = FailureResult

\* C15: when the synthesis of any one audio segment fails, the user fails at
\* the audio step: the step is not a success, nothing after it is begun (no
\* directories, render or upload) and the call returns the failure result.
C15_OneSegmentFailureFailsTheUser ==
    \A t \in Tasks :
        (\E i \in DOMAIN hist[t].synth : ~hist[t].synth[i]) =>
            /\ hist[t].failedAt = "audio"
            /\ "audio" \notin hist[t].succeeded
            /\ hist[t].steps[Len(hist[t].steps)] = "audio"
            /\ ~Busy(t)
            /\ results[t] = FailureResult

\* the first segment was synthesized, the second was not, the user failed
C15_Witness ==
    \E t \in Tasks :
        /\ Len(hist[t].synth) >= 2
        /\ hist[t].synth[1] /\ ~hist[t].synth[2]
        /\ hist[t].failedAt = "audio"
        /\ results[t] = FailureResult
        /\ "render" \notin {hist[t].steps[i] : i \in DOMAIN hist[t].steps}

\* C16: background selection never raises.  It returns the template file of
\* the user's value when that exists, else the declared default when that is
\* declared and exists, else the literal default.mp4.
C16_BackgroundSelectionNeverRaises ==
    (fn.op = "background" /\ fn.pc = "done") =>
        LET v == IF fn.value = "absent" THEN "default" ELSE fn.value
            own == DictGet(fn.table, v, DictGet(fn.table, "default", "default.mp4"))
            declared == DictGet(fn.table, "default", "default.mp4")
        IN /\ ~fn.ret.raised
           /\ fn.ret.path = IF own \in fn.files THEN own
                            ELSE IF declared \in fn.files THEN declared
                            ELSE "default.mp4"

\* the overlays generate_text_clips has been through so far
SeenOverlays == IF fn.op = "text_clips" THEN DOMAIN fn.seen ELSE {}

FieldResolves(overlay) ==
    /\ "field_name" \in DOMAIN overlay
    /\ overlay["field_name"] \in DOMAIN overlay_data

\* C18: the text of an overlay is its literal text when it has one, even when
\* it also references a field; otherwise the normalized value of the field it
\* references; an overlay with neither is skipped and gets no clip, and the
\* loop goes on: every overlay is gone through, and every one that has a text
\* and for which get_text_clip returned a clip is in the returned list.
C18_OverlayTextSource ==
    /\ \A i \in SeenOverlays :
          LET overlay == fn.overlays[i]
              clips == {j \in DOMAIN fn.text_clips : fn.text_clips[j].name = i}
          IN /\ "text" \in DOMAIN overlay =>
                    ~fn.seen[i].skip /\ fn.seen[i].text = overlay["text"]
             /\ ("text" \notin DOMAIN overlay /\ FieldResolves(overlay)) =>
                    /\ ~fn.seen[i].skip
                    /\ fn.seen[i].text = overlay_data[overlay["field_name"]]
             /\ ("text" \notin DOMAIN overlay /\ ~FieldResolves(overlay)) =>
                    fn.seen[i].skip /\ clips = {}
             /\ \A j \in clips : fn.text_clips[j].text = fn.seen[i].text
             /\ (~fn.seen[i].skip /\ fn.seen[i].rendered) => clips # {}
    /\ (fn.op = "text_clips" /\ fn.pc # "loop") =>
          SeenOverlays = DOMAIN fn.overlays

\* the first overlay has neither a text nor a field that resolves and was
\* skipped; the second has both a literal text and a resolving field and its
\* clip shows the literal text
C18_Witness ==
    /\ fn.op = "text_clips"
    /\ fn.pc = "done"
    /\ fn.ret = "list"
    /\ Len(fn.overlays) = 2
    /\ fn.seen[1].skip
    /\ "text" \in DOMAIN fn.overlays[2]
    /\ FieldResolves(fn.overlays[2])
    /\ Len(fn.text_clips) = 1
    /\ fn.text_clips[1].name = 2
    /\ fn.text_clips[1].text = "Hello"

\* C19: the rendered video lasts exactly as long as the background clip, and
\* the duration generate_video reports is the duration of what was rendered.
C19_RenderedDurationIsBackgroundDuration ==
    (fn.op = "text_clips" /\ fn.pc = "done" /\ fn.ret = "list") =>
        /\ fn.rendered = fn.video_duration
        /\ fn.reported = fn.rendered

\* C20: the layout get_text_clip returns is never at a font size below the
\* floor of 25: it either fits the box or is the best effort at a font size
\* of at least 25.
C20_FontNeverBelowFloor ==
    (fn.op = "layout" /\ fn.pc = "done" /\ fn.ret = "clip") =>
        fn.font_size >= FontFloor

\* the worker is past the skip check of a call and has not returned yet
InPipeline(w) == worker[w].pc \notin {"idle", "skip_check"}

\* C21: no two pool workers are inside the pipeline steps of the same user
\* key at the same time, also when the key occurs in more than one row.
C21_NoTwoWorkersOnOneKey ==
    \A w1, w2 \in Workers :
        (w1 # w2 /\ InPipeline(w1) /\ InPipeline(w2)) => Key(w1) # Key(w2)

\* the steps of a call as a set
StepsOf(t) == {hist[t].steps[i] : i \in DOMAIN hist[t].steps}

\* C28: within one batch at most one call per user key gets through render
\* and upload: of two rows with the same key, the second call skips instead
\* of rendering and uploading the key again.
C28_OneRenderAndUploadPerKey ==
    \A t1, t2 \in Tasks :
        (t1 # t2 /\ unprocessed[t1] = unprocessed[t2]) =>
            ~ /\ {"render", "video_upload"} \subseteq StepsOf(t1)
              /\ {"render", "video_upload"} \subseteq StepsOf(t2)
              /\ "video_upload" \in hist[t1].succeeded
              /\ "video_upload" \in hist[t2].succeeded

\* the worker is inside a call of upload_to_gcs
Uploading(w) == worker[w].pc \in {"upload_cover", "upload_video"}
UploadStage(w) == IF worker[w].pc = "upload_cover" THEN "cover_upload"
                  ELSE "video_upload"
UploadBucket(w) == IF worker[w].pc = "upload_cover" THEN "cover_image"
                   ELSE "video"

Succeeded == {t \in Tasks : "mark" \in hist[t].succeeded}

C24_NormalizeNeverAborts ==
    (fn.op = "normalize" /\ fn.pc = "done") =>
        /\ ~fn.ret.raised
        /\ Len(fn.ret.data) = Len(fn.customer_data)

\* the calls of generate_voiceover_script that have returned
ScriptsDone == IF fn.op = "script" THEN DOMAIN fn.scripts ELSE {}

\* C25: in the script of every segment each {field} token of a field that is
\* in the user's data has become that field's value, each token of a field
\* that is not in the data is still the literal token, and every other piece
\* of the text is as it was configured.
C25_TokensReplacedByTheirValues ==
    \A u \in ScriptsDone :
        \A k \in DOMAIN fn.configured :
            LET before == fn.configured[k]
                after == fn.scripts[u][k]
                data == fn.users[u]
            IN /\ Len(after) = Len(before)
               /\ \A i \in DOMAIN before :
                     after[i] =
                        IF \E f \in DOMAIN data : before[i] = PlaceholderOf[f]
                        THEN data[CHOOSE f \in DOMAIN data :
                                     before[i] = PlaceholderOf[f]]
                        ELSE before[i]

\* C29: every call's substitution starts from the configured templates,
\* whatever the calls before it on the same worker wrote into theirs.
C29_EachCallStartsFromConfiguredTemplates ==
    \A u \in ScriptsDone : fn.started[u] = fn.configured

\* the first user's substitution rewrote its templates, and the second
\* user's call still started from the configured ones
C29_Witness ==
    /\ fn.op = "script"
    /\ Len(fn.scripts) = 2
    /\ fn.scripts[1] # fn.configured
    /\ fn.started[2] = fn.configured
    /\ fn.scripts[2] # fn.scripts[1]

\* the configured segments, in order, that have a synthesized file of their
\* name
RECURSIVE MatchedFrom(_, _)
MatchedFrom(i, acc) ==
    IF i > Len(fn.audio_segments) THEN acc
    ELSE IF \E j \in DOMAIN fn.audio_files :
               fn.audio_files[j].segment_name = fn.audio_segments[i].segment_name
         THEN MatchedFrom(i + 1, Append(acc, i))
         ELSE MatchedFrom(i + 1, acc)

\* C27: get_audio_clips returns, in configuration order, exactly one clip
\* for each configured segment that has a synthesized file of its name, the
\* clip is of a file of that name and starts at the segment's start_time;
\* segments without such a file and files without such a segment add nothing.
C27_OneClipPerMatchedSegment ==
    (fn.op = "audio" /\ fn.pc = "done") =>
        LET matched == MatchedFrom(1, <<>>)
        IN /\ Len(fn.out) = Len(matched)
           /\ \A k \in DOMAIN matched :
                 /\ fn.out[k].start = fn.audio_segments[matched[k]].start_time
                 /\ fn.audio_files[fn.out[k].file].segment_name =
                        fn.audio_segments[matched[k]].segment_name

\* the positions of a call in which a retry wrapper has counted attempts
AfterWrapper == {"mv_write", "mv_verify", "mv_thumb", "mv_finally",
                 "gv_finally", "check_video", "upload_cover", "upload_video"}

\* C26: the steps a call began are an initial part of the controller's step
\* order, each begun once; a call whose step failed has that step as its
\* last one and is over; attempts are counted only in the render and upload
\* wrappers.
C26_EachStepAtMostOncePerCall ==
    /\ \A t \in Tasks :
          /\ Len(hist[t].steps) <= Len(StepOrder)
          /\ \A i \in DOMAIN hist[t].steps : hist[t].steps[i] = StepOrder[i]
          /\ hist[t].failedAt # "none" =>
                /\ hist[t].steps # <<>>
                /\ hist[t].steps[Len(hist[t].steps)] = hist[t].failedAt
                /\ \A w \in Workers : ~(InPipeline(w) /\ T(w) = t)
    /\ \A w \in Workers :
          worker[w].attempt > 0 => worker[w].pc \in AfterWrapper

\* a call failed at its video upload after every step before it was begun
\* once, and the call is over
C26_Witness ==
    \E t \in Tasks :
        /\ hist[t].failedAt = "video_upload"
        /\ hist[t].steps = SubSeq(StepOrder, 1, 7)
        /\ results[t] = FailureResult

\* C30: a call that leaves the video upload by failing returns the failure
\* value, its key is not in the processed set at that moment, and the cover
\* image it uploaded is still in the bucket.
C30_FailedVideoUploadLeavesKeyUnprocessed ==
    [][\A w \in Workers :
          (worker[w].pc = "upload_video" /\ worker'[w].pc = "idle") =>
              /\ results'[T(w)] = FailureResult
              /\ Key(w) \notin processed_users'
              /\ GcsUrl("cover_image", Key(w)) \in gcs']_vars

\* the parts of the claim about order: the video upload begins only after
\* the cover upload succeeded, and a success record is there only after both
\* uploads succeeded and the key was added
C30_UploadOrder ==
    \A t \in Tasks :
        /\ "video_upload" \in StepsOf(t) =>
              /\ "cover_upload" \in hist[t].succeeded
              /\ GcsUrl("cover_image", unprocessed[t]) \in gcs
        /\ results[t] = SuccessResult(unprocessed[t]) =>
              /\ {"cover_upload", "video_upload", "mark"} \subseteq hist[t].succeeded
              /\ GcsUrl("cover_image", unprocessed[t]) \in gcs
              /\ GcsUrl("video", unprocessed[t]) \in gcs
              /\ unprocessed[t] \in processed_users
====
